---- MODULE Spec2Model ----
(***************************************************************************)
(* State machine of StateManager (src/state/sync.py) and of the content    *)
(* hasher it uses (src/hashing/sha.py, StateHasher).                       *)
(*                                                                         *)
(* A key is a sequence of string tokens (the key "a" is <<"a">>), so that  *)
(* the queue entry f"DELETE:{key}" is the token "DELETE:" put in front of  *)
(* the key.  A JSON value is a tagged tuple: <<"s", string>>,              *)
(* <<"m", sequence of <<field, value>> pairs in insertion order>>,         *)
(* <<"l", sequence of values>> for a list, <<"t", sequence of values>> for *)
(* a tuple, or <<"n", << >> >> for null.                                   *)
(*                                                                         *)
(* Not modelled: SyncState.metadata and SyncConflict.detected_at (no       *)
(* operation of the manager reads them), and the print calls.              *)
(***************************************************************************)
EXTENDS Integers, Sequences, FiniteSets, TLC

\* ------------------------------------------------------------------ bounds
MaxVersion == 2
\* The reading of time.time() during the run.
Now == 2
MaxCalls == 3
\* The pushes that fail within one sync_all call.
MaxFailures == 1

\* ------------------------------------------------------------- input sets
\* Python's None, one marker per kind of value it stands in for.
None == [none |-> TRUE]
NoKey == << >>
NoValue == <<"n", << >> >>
NoString == "None"

KeyA == <<"a">>
KeyB == <<"b">>
Keys == {KeyA, KeyB}

\* The keys the primary backend holds a record for.
RemoteKeys == {KeyA}

JStr(s) == <<"s", s>>
JMap(pairs) == <<"m", pairs>>

VEmpty == JMap(<< >>)
VTodo == JMap(<< <<"status", JStr("todo")>> >>)
VDoing == JMap(<< <<"status", JStr("doing")>> >>)
VStamped == JMap(<< <<"status", JStr("doing")>>, <<"updated_at", JStr("t1")>> >>)

PutValues == {VTodo, VDoing}
RemoteValues == {VDoing}
MergedValues == {NoValue, VEmpty, VTodo, VDoing}

\* The clock readings a put may see, and the timestamps a remote record may
\* carry: before, at and after the local clock.
LocalTimes == {Now}
RemoteTimes == (Now - 1)..(Now + 1)
Versions == 1..MaxVersion

\* ------------------------------------------------ enums (sync.py 34-47)
\* An enum member is its name; EnumValue gives its .value.
GITHUB == "GITHUB"
CLOUDFLARE == "CLOUDFLARE"
SALESFORCE == "SALESFORCE"
SyncSource_LOCAL == "LOCAL"
SyncSource == {GITHUB, CLOUDFLARE, SALESFORCE, SyncSource_LOCAL}

LAST_WRITE_WINS == "LAST_WRITE_WINS"
SOURCE_PRIORITY == "SOURCE_PRIORITY"
MANUAL == "MANUAL"
MERGE == "MERGE"
ConflictResolution == {LAST_WRITE_WINS, SOURCE_PRIORITY, MANUAL, MERGE}

EnumValue(m) ==
  CASE m = GITHUB -> "github"
    [] m = CLOUDFLARE -> "cloudflare"
    [] m = SALESFORCE -> "salesforce"
    [] m = SyncSource_LOCAL -> "local"
    [] m = LAST_WRITE_WINS -> "last_write_wins"
    [] m = SOURCE_PRIORITY -> "source_priority"
    [] m = MANUAL -> "manual"
    [] m = MERGE -> "merge"

\* StateManager.__init__: primary_source defaults to CLOUDFLARE.
primary_source == CLOUDFLARE

\* ------------------------------------------------ hashing (sha.py)
volatile_fields == {"updated_at", "last_modified", "etag", "_metadata"}

\* Lexicographic rank of the field names the model uses (Python str order).
FieldRank(f) ==
  CASE f = "_metadata" -> 1
    [] f = "etag" -> 2
    [] f = "items" -> 3
    [] f = "last_modified" -> 4
    [] f = "meta" -> 5
    [] f = "status" -> 6
    [] f = "title" -> 7
    [] f = "updated_at" -> 8
    [] OTHER -> 9

RECURSIVE InsertSorted(_, _)
InsertSorted(p, s) ==
  IF s = << >> THEN <<p>>
  ELSE IF FieldRank(p[1]) <= FieldRank(Head(s)[1]) THEN <<p>> \o s
  ELSE <<Head(s)>> \o InsertSorted(p, Tail(s))

RECURSIVE SortPairs(_)
SortPairs(s) ==
  IF s = << >> THEN << >> ELSE InsertSorted(Head(s), SortPairs(Tail(s)))

RECURSIVE clean(_)
RECURSIVE CleanPairs(_)
RECURSIVE CleanItems(_)
\* The dict comprehension of clean: volatile fields dropped, values cleaned.
CleanPairs(s) ==
  IF s = << >> THEN << >>
  ELSE IF Head(s)[1] \in volatile_fields THEN CleanPairs(Tail(s))
  ELSE << <<Head(s)[1], clean(Head(s)[2])>> >> \o CleanPairs(Tail(s))

\* The list comprehension of clean.
CleanItems(s) ==
  IF s = << >> THEN << >> ELSE <<clean(Head(s))>> \o CleanItems(Tail(s))

\* isinstance(obj, dict), isinstance(obj, list), and every other value (a
\* str, None, a tuple) returned as it is.
clean(obj) ==
  IF obj[1] = "m" THEN <<"m", CleanPairs(SortPairs(obj[2]))>>
  ELSE IF obj[1] = "l" THEN <<"l", CleanItems(obj[2])>>
  ELSE obj

_normalize_state(state) == clean(state)

RECURSIVE Canonical(_)
RECURSIVE CanonicalPairs(_)
RECURSIVE CanonicalItems(_)
\* json.dumps(obj, sort_keys=True, separators=(',', ':')): the canonical text,
\* kept as a term; maps are written with their keys sorted, and a list and
\* a tuple are both written as a JSON array.
CanonicalPairs(s) ==
  IF s = << >> THEN << >>
  ELSE << <<Head(s)[1], Canonical(Head(s)[2])>> >> \o CanonicalPairs(Tail(s))

CanonicalItems(s) ==
  IF s = << >> THEN << >> ELSE <<Canonical(Head(s))>> \o CanonicalItems(Tail(s))

Canonical(obj) ==
  IF obj[1] = "m" THEN <<"{", CanonicalPairs(SortPairs(obj[2]))>>
  ELSE IF obj[1] \in {"l", "t"} THEN <<"[", CanonicalItems(obj[2])>>
  ELSE IF obj[1] = "n" THEN <<"null">>
  ELSE <<"str", obj[2]>>

\* SHA-256 of the canonical text, taken as collision free: the digest is
\* the text it was computed from.
hash_json(obj) == <<"sha256", Canonical(obj)>>

hash_state(state) == hash_json(_normalize_state(state))

\* ------------------------------------------------------------------ state
VARIABLES
  cache,      \* _local_cache: key -> SyncState or None (not cached)
  order,      \* the insertion order of _local_cache's keys
  pending,    \* _pending_syncs
  conflicts,  \* _conflicts
  last,       \* the last call: operation, key, result or error raised
  calls,      \* the number of calls made so far
  held,       \* history: key -> the highest version cached for it so far
  threads,    \* per caller thread: the call it is in, its place, its locals
  input,      \* the arguments handed to the pure functions
  output      \* what the pure functions returned for them

vars == <<cache, order, pending, conflicts, last, calls, held, threads, input,
          output>>

SyncState(k, v, h, src, ts, ver) ==
  [key |-> k, value |-> v, hash |-> h, source |-> src, timestamp |-> ts,
   version |-> ver]

SyncConflictAutoResolved(k, l, r) ==
  [key |-> k, local_state |-> l, remote_state |-> r, resolved |-> TRUE,
   resolution |-> "last_write_wins"]

\* SyncConflict(key=..., local_state=..., remote_state=...): resolved and
\* resolution take their defaults.
SyncConflict(k, l, r) ==
  [key |-> k, local_state |-> l, remote_state |-> r, resolved |-> FALSE,
   resolution |-> NoString]

\* A record another client of the backend wrote: its value carries the
\* backend's own bookkeeping field and its hash was taken over the whole
\* value.  _fetch_from_source hands over the record as the backend holds it.
ForeignRecord(k) ==
  SyncState(k, VStamped, hash_json(VStamped), primary_source, Now, MaxVersion)

\* What the primary backend may hold for a key.
RemoteRecords(k) ==
  IF k \in RemoteKeys
  THEN {SyncState(k, v, hash_state(v), primary_source, ts, ver) :
          v \in RemoteValues, ts \in RemoteTimes, ver \in Versions}
       \cup {ForeignRecord(k)}
  ELSE {}

\* The outcomes of _fetch_from_source on a backend adapter: absent, a
\* record, or a transport error raised.
Raise == [raise |-> TRUE]
FetchResults(k) == {None, Raise} \cup RemoteRecords(k)

\* The outcomes of _push_to_source on a backend adapter.
PushOutcomes == {"True", "False", "raise"}
PushSources == <<CLOUDFLARE, SALESFORCE>>

\* The returned values that are not records: a bool, an int, a list.
Bool(b) == [bool |-> b]
Count(n) == [count |-> n]
List(l) == [items |-> l]

Call(op, key, ret) == [op |-> op, key |-> key, ret |-> ret, err |-> NoString]
Raised(op, key, err) == [op |-> op, key |-> key, ret |-> None, err |-> err]

\* dict.get on _local_cache with a queue entry or a key.
CacheGet(c, e) == IF e \in Keys THEN c[e] ELSE None

\* _local_cache[k] = rec: a new key goes last in the insertion order.
OrderSet(o, c, k) == IF c[k] = None THEN Append(o, k) ELSE o

RECURSIVE RemoveFirst(_, _)
\* list.remove(x): the first occurrence.
RemoveFirst(s, x) ==
  IF s = << >> THEN << >>
  ELSE IF Head(s) = x THEN Tail(s)
  ELSE <<Head(s)>> \o RemoveFirst(Tail(s), x)

\* One more call on the manager, while the run is within its bound.
Counted == calls < MaxCalls /\ calls' = calls + 1

\* No thread is inside a call, and no pure function has been applied.
NoThreads == << >>
NoInput == [none |-> TRUE]
NoOutput == [op |-> "none", first |-> << >>, second |-> << >>]

\* StateManager.__init__
Fresh ==
  /\ cache = [k \in Keys |-> None]
  /\ order = << >>
  /\ pending = << >>
  /\ conflicts = << >>
  /\ last = Call("init", NoKey, None)
  /\ calls = 0
  /\ held = [k \in Keys |-> 0]

\* One caller at a time: each call runs from its first line to its return.
Init ==
  /\ Fresh
  /\ threads = NoThreads
  /\ input = NoInput
  /\ output = NoOutput

\* The history of SyncState.version per key, after a call that leaves the
\* cache c.
Holds(h, c) ==
  [k \in Keys |->
     IF c[k] # None /\ c[k].version > h[k] THEN c[k].version ELSE h[k]]

Track == held' = Holds(held, cache') /\ UNCHANGED <<threads, input, output>>

\* -------------------------------------------------------------- put
\* source = source or SyncSource.LOCAL
PutSource(source) == IF source = NoString THEN SyncSource_LOCAL ELSE source

PutVersionStale(existing) == IF existing = None THEN 1 ELSE existing.version

\* version = (existing.version + 1) if existing else 1
PutVersion(existing) == IF existing = None THEN 1 ELSE existing.version + 1

\* The SyncState put builds; ts is the reading of time.time().
PutState(c, key, value, source, ts) ==
  SyncState(key, value, hash_state(value), PutSource(source), ts,
            PutVersion(c[key]))

\* self._pending_syncs.append(key)
PutPending(p, key) == Append(p, key)

Put(key, value, source, ts) ==
  LET state == PutState(cache, key, value, source, ts) IN
  /\ Counted
  /\ state.version <= MaxVersion
  /\ cache' = [cache EXCEPT ![key] = state]
  /\ order' = OrderSet(order, cache, key)
  /\ pending' = PutPending(pending, key)
  /\ last' = Call("put", key, state)
  /\ UNCHANGED conflicts

\* -------------------------------------------------------------- delete
TombstoneBare(key) == key

\* f"DELETE:{key}"
Tombstone(key) == <<"DELETE:">> \o key

Delete(key) ==
  /\ Counted
  /\ IF cache[key] # None
     THEN /\ cache' = [cache EXCEPT ![key] = None]
          /\ order' = RemoveFirst(order, key)
          /\ pending' = Append(pending, Tombstone(key))
          /\ last' = Call("delete", key, Bool(TRUE))
          /\ UNCHANGED conflicts
     ELSE /\ last' = Call("delete", key, Bool(FALSE))
          /\ UNCHANGED <<cache, order, pending, conflicts>>

\* -------------------------------------------------------------- get
GetCacheUntouched(c, key, state) == c

\* if state: self._local_cache[key] = state
GetCache(c, key, state) == IF state = None THEN c ELSE [c EXCEPT ![key] = state]

Get(key, fetched) ==
  /\ Counted
  /\ IF cache[key] # None
     THEN /\ last' = Call("get", key, cache[key])
          /\ UNCHANGED <<cache, order, pending, conflicts>>
     ELSE /\ fetched \in FetchResults(key)
          /\ IF fetched = Raise
             THEN /\ last' = Raised("get", key, "BackendFailure")
                  /\ UNCHANGED <<cache, order, pending, conflicts>>
             ELSE /\ cache' = GetCache(cache, key, fetched)
                  /\ order' = IF fetched = None THEN order
                              ELSE OrderSet(order, cache, key)
                  /\ last' = Call("get", key, fetched)
                  /\ UNCHANGED <<pending, conflicts>>

\* -------------------------------------------------------------- sync_all
\* The entry of results["synced"] / results["failed"] for one push:
\* f"{key}@{source.value}", with ": {str(e)}" behind it when the push raised.
PushEntry(key, source, outcome) ==
  IF outcome = "raise" THEN <<key, EnumValue(source), "error">>
  ELSE <<key, EnumValue(source)>>

RECURSIVE PushAll(_, _, _, _, _)
\* The inner loop over the two push sources for pending entry number i:
\* res is the results dict so far, j the source's index.
PushAll(res, key, i, j, outcomes) ==
  IF j > Len(PushSources) THEN res
  ELSE LET source == PushSources[j]
           outcome == outcomes[i][j]
           entry == PushEntry(key, source, outcome)
       IN PushAll(IF outcome = "True"
                  THEN [res EXCEPT !.synced = Append(@, entry)]
                  ELSE [res EXCEPT !.failed = Append(@, entry)],
                  key, i, j + 1, outcomes)

SyncSkipRequeued(p, key) == Append(p, key)

\* What the loop body does with an entry whose state was not found.
SyncSkip(p, key) == p

\* self._pending_syncs.remove(key) after the pushes of an entry.
SyncRemove(p, key) == RemoveFirst(p, key)

RECURSIVE SyncLoop(_, _, _, _, _, _)
\* for key in self._pending_syncs[:]: copy is the copied list, i the index
\* of the entry at hand, p the live pending list, res the results so far.
\* Gives <<the final pending list, the results>>.
SyncLoop(c, copy, i, p, res, outcomes) ==
  IF i > Len(copy) THEN <<p, res>>
  ELSE LET key == copy[i]
           state == CacheGet(c, key)
       IN IF state = None
          THEN SyncLoop(c, copy, i + 1, SyncSkip(p, key), res, outcomes)
          ELSE SyncLoop(c, copy, i + 1, SyncRemove(p, key),
                        PushAll(res, key, i, 1, outcomes), outcomes)

EmptyResults == [synced |-> << >>, failed |-> << >>, conflicts |-> << >>]

SyncAll(outcomes) ==
  LET out == SyncLoop(cache, pending, 1, pending, EmptyResults, outcomes) IN
  /\ Counted
  /\ pending' = out[1]
  /\ last' = Call("sync_all", NoKey, out[2])
  /\ UNCHANGED <<cache, order, conflicts>>

\* ------------------------------------------------------ sync_from_primary
\* keys_to_sync = keys or list(self._local_cache.keys())
\* keys is [given |-> is a list passed, list |-> the list].
KeysToSync(keys, o) == IF ~keys.given \/ keys.list = << >> THEN o ELSE keys.list

NoKeys == [given |-> FALSE, list |-> << >>]
KeyList(l) == [given |-> TRUE, list |-> l]
KeysArgs == {NoKeys, KeyList(<< >>), KeyList(<<KeyA>>), KeyList(<<KeyB>>),
             KeyList(<<KeyA, KeyB>>)}

PullConflictWhenAhead(local_state, remote_state) ==
  /\ local_state # None
  /\ local_state.hash # remote_state.hash
  /\ local_state.version >= remote_state.version

\* Whether sync_from_primary logs a conflict instead of taking the remote:
\* local_state and local_state.hash != remote_state.hash
PullConflict(local_state, remote_state) ==
  local_state # None /\ local_state.hash # remote_state.hash

RECURSIVE PullLoop(_, _, _, _)
\* for key in keys_to_sync, from index i on; st is the manager's state and
\* the count so far.  A fetch that raises ends the call where it stands.
PullLoop(keys, i, st, fetched) ==
  IF i > Len(keys) THEN st
  ELSE LET key == keys[i]
           remote_state == fetched[i]
           local_state == CacheGet(st.cache, key)
       IN IF remote_state = Raise THEN [st EXCEPT !.raised = TRUE]
          ELSE IF remote_state = None THEN PullLoop(keys, i + 1, st, fetched)
          ELSE IF PullConflict(local_state, remote_state)
          THEN PullLoop(keys, i + 1,
                 [st EXCEPT !.conflicts =
                    Append(@, SyncConflict(key, local_state, remote_state))],
                 fetched)
          ELSE PullLoop(keys, i + 1,
                 [st EXCEPT !.cache = [@ EXCEPT ![key] = remote_state],
                            !.order = OrderSet(@, st.cache, key),
                            !.count = @ + 1],
                 fetched)

RECURSIVE Fetches(_)
\* One fetch result for each key of the list, in the list's order.
Fetches(keys) ==
  IF keys = << >> THEN {<< >>}
  ELSE {<<x>> \o r : x \in FetchResults(Head(keys)), r \in Fetches(Tail(keys))}

\* The lists of keys a call may walk (a key list passed, or the cache's keys
\* in their order), and Fetches of each, tabulated.
KeyLists == {<< >>, <<KeyA>>, <<KeyB>>, <<KeyA, KeyB>>, <<KeyB, KeyA>>}
FetchesOf == [l \in KeyLists |-> Fetches(l)]

SyncFromPrimary(keys, fetched) ==
  LET todo == KeysToSync(keys, order)
      st == PullLoop(todo, 1,
              [cache |-> cache, order |-> order, conflicts |-> conflicts,
               count |-> 0, raised |-> FALSE], fetched)
  IN /\ Counted
     /\ Len(fetched) = Len(todo)
     /\ cache' = st.cache
     /\ order' = st.order
     /\ conflicts' = st.conflicts
     /\ last' = IF st.raised
                THEN Raised("sync_from_primary", NoKey, "BackendFailure")
                ELSE Call("sync_from_primary", NoKey, Count(st.count))
     /\ UNCHANGED pending

\* ------------------------------------------------------- detect_conflicts
DetectConflictStrict(local_state, remote_state) ==
  /\ remote_state # None
  /\ local_state.hash # remote_state.hash
  /\ ~(local_state.version > remote_state.version)

\* Whether detect_conflicts reports the pair: the remote is there, the
\* hashes differ and the local version is below the remote one.
DetectConflict(local_state, remote_state) ==
  /\ remote_state # None
  /\ local_state.hash # remote_state.hash
  /\ ~(local_state.version >= remote_state.version)

RECURSIVE DetectLoop(_, _, _, _, _)
\* for key, local_state in self._local_cache.items(), from index i on; found
\* is the local list `conflicts`.  Gives [found, raised].
DetectLoop(c, keys, i, found, fetched) ==
  IF i > Len(keys) THEN [found |-> found, raised |-> FALSE]
  ELSE LET key == keys[i]
           remote_state == fetched[i]
       IN IF remote_state = Raise THEN [found |-> found, raised |-> TRUE]
          ELSE IF DetectConflict(c[key], remote_state)
          THEN DetectLoop(c, keys, i + 1,
                 Append(found, SyncConflict(key, c[key], remote_state)),
                 fetched)
          ELSE DetectLoop(c, keys, i + 1, found, fetched)

DetectExtendReplacing(log, found) == found

DetectExtendDropping(log, found) == log

\* self._conflicts.extend(conflicts)
DetectExtend(log, found) == log \o found

DetectConflicts(fetched) ==
  LET out == DetectLoop(cache, order, 1, << >>, fetched) IN
  /\ Counted
  /\ Len(fetched) = Len(order)
  /\ IF out.raised
     THEN /\ last' = Raised("detect_conflicts", NoKey, "BackendFailure")
          /\ UNCHANGED conflicts
     ELSE /\ conflicts' = DetectExtend(conflicts, out.found)
          /\ last' = Call("detect_conflicts", NoKey, List(out.found))
  /\ UNCHANGED <<cache, order, pending>>

\* ------------------------------------------------------- resolve_conflict
LastWriteWinnerTieLocal(conflict) ==
  IF conflict.local_state.timestamp >= conflict.remote_state.timestamp
  THEN conflict.local_state
  ELSE conflict.remote_state

LastWriteWinnerRemote(conflict) == conflict.remote_state

\* LAST_WRITE_WINS: the local record when its timestamp is the later one,
\* else the remote record.
LastWriteWinner(conflict) ==
  IF conflict.local_state.timestamp > conflict.remote_state.timestamp
  THEN conflict.local_state
  ELSE conflict.remote_state

SourcePriorityWinnerLocal(conflict) == conflict.local_state

\* SOURCE_PRIORITY: winner = conflict.remote_state
SourcePriorityWinner(conflict) == conflict.remote_state

\* `not merged_value`: None and the empty dict are both falsy.
NotMergedValue(merged_value) ==
  merged_value[1] = "n" \/ (merged_value[1] = "m" /\ merged_value[2] = << >>)

ResolveErrorManualPasses(resolution, merged_value) ==
  IF resolution \in {LAST_WRITE_WINS, SOURCE_PRIORITY, MANUAL} THEN NoString
  ELSE IF NotMergedValue(merged_value)
  THEN "ValueError: merged_value required for MERGE resolution"
  ELSE NoString

\* The exception resolve_conflict raises, or NoString.
ResolveError(resolution, merged_value) ==
  IF resolution \in {LAST_WRITE_WINS, SOURCE_PRIORITY} THEN NoString
  ELSE IF resolution = MERGE
  THEN IF NotMergedValue(merged_value)
       THEN "ValueError: merged_value required for MERGE resolution"
       ELSE NoString
  ELSE "ValueError: Cannot auto-resolve with resolution"

MarkResolvedOnce(conflict, resolution) ==
  IF conflict.resolved THEN conflict
  ELSE [conflict EXCEPT !.resolved = TRUE, !.resolution = EnumValue(resolution)]

\* conflict.resolved = True; conflict.resolution = resolution.value
MarkResolved(conflict, resolution) ==
  [conflict EXCEPT !.resolved = TRUE, !.resolution = EnumValue(resolution)]

ResolvePendingForgotten(p, key) == p

\* self._pending_syncs.append(conflict.key) at the end of resolve_conflict.
ResolvePending(p, key) == Append(p, key)

ResolveConflict(i, resolution, merged_value, ts) ==
  LET conflict == conflicts[i]
      key == conflict.key
      err == ResolveError(resolution, merged_value)
      merging == resolution = MERGE /\ err = NoString
      \* MERGE: winner = self.put(conflict.key, merged_value)
      put == PutState(cache, key, merged_value, NoString, ts)
      cache1 == IF merging THEN [cache EXCEPT ![key] = put] ELSE cache
      order1 == IF merging THEN OrderSet(order, cache, key) ELSE order
      pending1 == IF merging THEN PutPending(pending, key) ELSE pending
      winner == IF resolution = LAST_WRITE_WINS THEN LastWriteWinner(conflict)
                ELSE IF resolution = SOURCE_PRIORITY
                THEN SourcePriorityWinner(conflict)
                ELSE put
  IN /\ Counted
     /\ IF err # NoString
        THEN /\ last' = Raised("resolve_conflict", key, err)
             /\ UNCHANGED <<cache, order, pending, conflicts>>
        ELSE /\ winner.version <= MaxVersion
             /\ conflicts' = [conflicts EXCEPT ![i] = MarkResolved(@, resolution)]
             /\ cache' = [cache1 EXCEPT ![key] = winner]
             /\ order' = OrderSet(order1, cache1, key)
             /\ pending' = ResolvePending(pending1, key)
             /\ last' = Call("resolve_conflict", key, winner)

\* ------------------------------------------------------------ persistence
\* SyncState.to_dict: the source is written as its value.
to_dict(state) ==
  [key |-> state.key, value |-> state.value, hash |-> state.hash,
   source |-> EnumValue(state.source), timestamp |-> state.timestamp,
   version |-> state.version]

\* SyncSource(data["source"]): the member with that value.
SourceOfValue(v) == CHOOSE m \in SyncSource : EnumValue(m) = v

from_dict_default_version(data) ==
  SyncState(data.key, data.value, data.hash, SourceOfValue(data.source),
            data.timestamp, 1)

\* SyncState.from_dict
from_dict(data) ==
  SyncState(data.key, data.value, data.hash, SourceOfValue(data.source),
            data.timestamp, data.version)

RECURSIVE StatesOf(_, _)
\* {k: v.to_dict() for k, v in self._local_cache.items()}, as the sequence
\* of <<key, dict>> items in the cache's order.
StatesOf(c, o) ==
  IF o = << >> THEN << >>
  ELSE << <<Head(o), to_dict(c[Head(o)])>> >> \o StatesOf(c, Tail(o))

\* The JSON document save_local writes (its "version" and "timestamp"
\* fields, which load_local does not read, left out).
Snapshot(c, o, p) == [states |-> StatesOf(c, o), pending_syncs |-> p]

NoFile == [nofile |-> TRUE]

\* Snapshot files found on disk from earlier runs.
OldRecord == SyncState(KeyA, VTodo, hash_state(VTodo), SyncSource_LOCAL, Now - 1, 1)
\* The record of a run that put KeyA twice, VTodo last, and saved at once.
TwicePutRecord == SyncState(KeyA, VTodo, hash_state(VTodo), SyncSource_LOCAL, Now, 2)
Files ==
  {NoFile,
   [states |-> << >>, pending_syncs |-> << >>],
   [states |-> << <<KeyA, to_dict(OldRecord)>> >>, pending_syncs |-> << >>],
   [states |-> << <<KeyA, to_dict(OldRecord)>> >>, pending_syncs |-> <<KeyA>>],
   [states |-> << <<KeyA, to_dict(TwicePutRecord)>> >>,
    pending_syncs |-> <<KeyA, KeyA>>]}

SaveLocal ==
  /\ Counted
  /\ last' = Call("save_local", NoKey, Snapshot(cache, order, pending))
  /\ UNCHANGED <<cache, order, pending, conflicts>>

RECURSIVE LoadStates(_, _)
\* for key, state_dict in data.get("states", {}).items():
\*     self._local_cache[key] = SyncState.from_dict(state_dict)
\* st is [cache, order].
LoadStates(items, st) ==
  IF items = << >> THEN st
  ELSE LET key == Head(items)[1] IN
       LoadStates(Tail(items),
                  [cache |-> [st.cache EXCEPT ![key] = from_dict(Head(items)[2])],
                   order |-> OrderSet(st.order, st.cache, key)])

\* The pending list load_local leaves: data.get("pending_syncs", [])
LoadPending(p, data) == data.pending_syncs

LoadMissingReturnsSize(o) == Len(o)

\* except FileNotFoundError: return 0
LoadMissing(o) == 0

LoadCountOfFile(o, items) == Len(items)

\* return len(self._local_cache): o is the cache's keys after the loop.
LoadCount(o, items) == Len(o)

\* The file load_local opens: the one the save_local just before it wrote,
\* or one of Files.
LoadLocal(file) ==
  /\ Counted
  /\ IF file = NoFile
     THEN /\ last' = Call("load_local", NoKey, Count(LoadMissing(order)))
          /\ UNCHANGED <<cache, order, pending, conflicts>>
     ELSE LET st == LoadStates(file.states, [cache |-> cache, order |-> order]) IN
          /\ cache' = st.cache
          /\ order' = st.order
          /\ pending' = LoadPending(pending, file)
          /\ last' = Call("load_local", NoKey,
                          Count(LoadCount(st.order, file.states)))
          /\ UNCHANGED conflicts

LoadableFiles ==
  Files \cup (IF last.op = "save_local" THEN {last.ret} ELSE {})

\* ------------------------------------------------------------------- spec
PutSources == {NoString, SyncSource_LOCAL}

\* The outcome of every push a sync_all call may make: one per pending
\* entry and push source.
Outcomes ==
  {o \in [1..Len(pending) -> [1..Len(PushSources) -> PushOutcomes]] :
     Cardinality({<<i, j>> \in (1..Len(pending)) \X (1..Len(PushSources)) :
                    o[i][j] # "True"}) <= MaxFailures}

\* A call is made only while the run is within its bound.
Running == calls < MaxCalls

Next ==
  \/ /\ Running
     /\ \E key \in Keys, value \in PutValues, source \in PutSources,
           ts \in LocalTimes :
          Put(key, value, source, ts)
     /\ Track
  \/ /\ Running
     /\ \E key \in Keys : Delete(key)
     /\ Track
  \/ /\ Running
     /\ \E key \in Keys : \E fetched \in FetchResults(key) : Get(key, fetched)
     /\ Track
  \/ /\ Running
     /\ \E outcomes \in Outcomes : SyncAll(outcomes)
     /\ Track
  \/ /\ Running
     /\ \E keys \in KeysArgs : \E fetched \in FetchesOf[KeysToSync(keys, order)] :
          SyncFromPrimary(keys, fetched)
     /\ Track
  \/ /\ Running
     /\ \E fetched \in FetchesOf[order] : DetectConflicts(fetched)
     /\ Track
  \/ /\ Running
     /\ \E i \in 1..Len(conflicts), resolution \in ConflictResolution,
           merged_value \in MergedValues, ts \in LocalTimes :
          ResolveConflict(i, resolution, merged_value, ts)
     /\ Track
  \/ /\ Running
     /\ SaveLocal
     /\ Track
  \/ /\ Running
     /\ \E file \in LoadableFiles : LoadLocal(file)
     /\ Track

Spec == Init /\ [][Next]_vars

\* ------------------------------------- calls on a manager with a conflict
\* The record the primary holds for KeyA, written before the local one.
EarlierRemote ==
  SyncState(KeyA, VDoing, hash_state(VDoing), primary_source, Now - 1, 1)

\* The manager after load_local of a snapshot of TwicePutRecord saved with
\* nothing pending (put, put, sync_all, save_local), a put of KeyB and a
\* sync_from_primary that found EarlierRemote for KeyA and nothing for
\* KeyB: the conflict is logged, the local record kept.  The bound on the
\* run takes the calls that led here as one.
LoggedInit ==
  LET file == [states |-> << <<KeyA, to_dict(TwicePutRecord)>> >>,
               pending_syncs |-> << >>]
      loaded == LoadStates(file.states,
                           [cache |-> [k \in Keys |-> None], order |-> << >>])
      state == PutState(loaded.cache, KeyB, VTodo, NoString, Now)
      pulled == PullLoop(OrderSet(loaded.order, loaded.cache, KeyB), 1,
                         [cache |-> [loaded.cache EXCEPT ![KeyB] = state],
                          order |-> OrderSet(loaded.order, loaded.cache, KeyB),
                          conflicts |-> << >>, count |-> 0, raised |-> FALSE],
                         <<EarlierRemote, None>>)
  IN /\ cache = pulled.cache
     /\ order = pulled.order
     /\ pending = PutPending(LoadPending(<< >>, file), KeyB)
     /\ conflicts = pulled.conflicts
     /\ last = Call("sync_from_primary", NoKey, Count(pulled.count))
     /\ calls = 1
     /\ held = Holds([k \in Keys |-> 0], pulled.cache)
     /\ threads = NoThreads
     /\ input = NoInput
     /\ output = NoOutput

LoggedSpec == LoggedInit /\ [][Next]_vars

\* ----------------------------------------- the pure functions, applied
JList(items) == <<"l", items>>
JTuple(items) == <<"t", items>>

\* Values for hash_state: the same card with its fields in another order,
\* with a volatile field, inside another mapping, and inside a list and a
\* tuple (json.dumps takes both) with and without a volatile field.
VCard == JMap(<< <<"status", JStr("todo")>>, <<"title", JStr("x")>> >>)
VCardSwapped == JMap(<< <<"title", JStr("x")>>, <<"status", JStr("todo")>> >>)
VCardEtag ==
  JMap(<< <<"title", JStr("x")>>, <<"etag", JStr("e1")>>,
          <<"status", JStr("todo")>> >>)
VNested == JMap(<< <<"meta", VCard>> >>)
VNestedEtag == JMap(<< <<"meta", VCardEtag>>, <<"_metadata", VTodo>> >>)
VListed == JMap(<< <<"items", JList(<<VDoing, VCard>>)>> >>)
VListedStamped == JMap(<< <<"items", JList(<<VStamped, VCardEtag>>)>> >>)
VListedTurned == JMap(<< <<"items", JList(<<VCard, VDoing>>)>> >>)
VTupled == JMap(<< <<"items", JTuple(<<VDoing>>)>> >>)
VTupledStamped == JMap(<< <<"items", JTuple(<<VStamped>>)>> >>)
HashValues ==
  {VTodo, VDoing, VStamped, VCard, VCardSwapped, VCardEtag, VNested,
   VNestedEtag, VListed, VListedStamped, VListedTurned, VTupled,
   VTupledStamped}

\* Keys for put and delete: a key is any str, "DELETE:a" included.
KeyStrings == {KeyA, KeyB, <<"DELETE:">> \o KeyA}

Inputs == [k1 : KeyStrings, k2 : KeyStrings, x : HashValues, y : HashValues]

PureInit ==
  /\ Fresh
  /\ threads = NoThreads
  /\ input \in Inputs
  /\ output = NoOutput

\* hash_state of the two values.
HashBoth ==
  /\ output' = [op |-> "hash_state", first |-> hash_state(input.x),
                second |-> hash_state(input.y)]
  /\ UNCHANGED <<cache, order, pending, conflicts, last, calls, held,
                 threads, input>>

\* The entry delete(k1) appends to _pending_syncs for a cached k1, and the
\* entry put(k2) appends.
QueueBoth ==
  /\ output' = [op |-> "queue", first |-> Tombstone(input.k1),
                second |-> PutPending(<< >>, input.k2)[1]]
  /\ UNCHANGED <<cache, order, pending, conflicts, last, calls, held,
                 threads, input>>

PureNext == HashBoth \/ QueueBoth

PureSpec == PureInit /\ [][PureNext]_vars

\* ------------------------------------------- two caller threads, stepwise
\* StateManager takes no lock anywhere: two threads calling put, delete and
\* sync_all on one manager interleave between any two accesses of
\* _local_cache and _pending_syncs.  A step is one such access with the
\* thread-local work before it.
ThreadIds == {1, 2}

\* A thread outside any call; the fields are the locals of the call at hand
\* (state, copy, i, results), what it returned or raised, and history:
\* before is the version the key had when put read it, seq the number of the
\* call among all calls, quiet whether no other thread was in a call when
\* this call began, alone whether moreover no other thread has taken a step
\* since.
IdleThread ==
  [pc |-> "idle", op |-> "none", key |-> NoKey, state |-> None,
   copy |-> << >>, i |-> 0, results |-> EmptyResults, ret |-> None,
   err |-> NoString, before |-> 0, seq |-> 0, quiet |-> FALSE,
   alone |-> FALSE]

ThreadInit ==
  /\ Fresh
  /\ threads = [t \in ThreadIds |-> IdleThread]
  /\ input = NoInput
  /\ output = NoOutput

\* Thread t moves on to rec; every other thread has now been interleaved.
Step(t, rec) ==
  /\ threads' = [u \in ThreadIds |->
                   IF u = t THEN rec ELSE [threads[u] EXCEPT !.alone = FALSE]]
  /\ held' = Holds(held, cache')
  /\ UNCHANGED <<conflicts, last, input, output>>

\* Thread t enters a call.
Enter(t, op, key) ==
  LET nobody == \A u \in ThreadIds \ {t} : threads[u].pc = "idle" IN
  [IdleThread EXCEPT !.op = op, !.key = key, !.seq = calls + 1,
                     !.quiet = nobody, !.alone = nobody]

\* put, lines 162-178: existing is read and the new SyncState is built.
PutRead(t, key, value, source, ts) ==
  LET state == PutState(cache, key, value, source, ts) IN
  /\ threads[t].pc = "idle"
  /\ UNCHANGED <<cache, order, pending>>
  /\ Counted
  /\ state.version <= MaxVersion
  /\ Step(t, [Enter(t, "put", key) EXCEPT
                 !.pc = "put_store", !.state = state,
                 !.before = IF cache[key] = None THEN 0 ELSE cache[key].version])

\* put, line 180: self._local_cache[key] = state
PutStore(t) ==
  /\ threads[t].pc = "put_store"
  /\ UNCHANGED <<pending, calls>>
  /\ cache' = [cache EXCEPT ![threads[t].key] = threads[t].state]
  /\ order' = OrderSet(order, cache, threads[t].key)
  /\ Step(t, [threads[t] EXCEPT !.pc = "put_append"])

\* put, lines 181-183: the key is appended and the state returned.
PutAppend(t) ==
  /\ threads[t].pc = "put_append"
  /\ UNCHANGED <<cache, order, calls>>
  /\ pending' = PutPending(pending, threads[t].key)
  /\ Step(t, [threads[t] EXCEPT !.pc = "idle", !.ret = threads[t].state])

\* delete, line 187: if key in self._local_cache
DeleteTest(t, key) ==
  /\ threads[t].pc = "idle"
  /\ UNCHANGED <<cache, order, pending>>
  /\ Counted
  /\ Step(t, IF cache[key] # None
              THEN [Enter(t, "delete", key) EXCEPT !.pc = "delete_del"]
              ELSE [Enter(t, "delete", key) EXCEPT !.ret = Bool(FALSE)])

\* delete, line 188: del self._local_cache[key], a KeyError when another
\* thread has deleted the key since the test.
DeleteDel(t) ==
  /\ threads[t].pc = "delete_del"
  /\ UNCHANGED <<pending, calls>>
  /\ IF cache[threads[t].key] # None
     THEN /\ cache' = [cache EXCEPT ![threads[t].key] = None]
          /\ order' = RemoveFirst(order, threads[t].key)
          /\ Step(t, [threads[t] EXCEPT !.pc = "delete_append"])
     ELSE /\ UNCHANGED <<cache, order>>
          /\ Step(t, [threads[t] EXCEPT !.pc = "idle", !.err = "KeyError"])

\* delete, lines 190-191: the tombstone is appended, True returned.
DeleteAppend(t) ==
  /\ threads[t].pc = "delete_append"
  /\ UNCHANGED <<cache, order, calls>>
  /\ pending' = Append(pending, Tombstone(threads[t].key))
  /\ Step(t, [threads[t] EXCEPT !.pc = "idle", !.ret = Bool(TRUE)])

\* sync_all, lines 216-222: results is set up and _pending_syncs copied.
SyncCopy(t) ==
  /\ threads[t].pc = "idle"
  /\ UNCHANGED <<cache, order, pending>>
  /\ Counted
  /\ Step(t, [Enter(t, "sync_all", NoKey) EXCEPT
                 !.pc = "sync_next", !.copy = pending, !.i = 1])

\* sync_all, lines 222-225 and 240: the loop takes the next entry of the
\* copy and looks its state up, or returns the results after the last.
SyncNext(t) ==
  LET th == threads[t] IN
  /\ th.pc = "sync_next"
  /\ UNCHANGED <<cache, order, pending, calls>>
  /\ IF th.i > Len(th.copy)
     THEN Step(t, [th EXCEPT !.pc = "idle", !.ret = th.results])
     ELSE LET state == CacheGet(cache, th.copy[th.i]) IN
          IF state = None
          THEN Step(t, [th EXCEPT !.i = th.i + 1])
          ELSE Step(t, [th EXCEPT !.pc = "sync_push", !.state = state])

\* sync_all, lines 228-236: the pushes of the entry to both sources.
SyncPush(t, outcomes) ==
  LET th == threads[t] IN
  /\ th.pc = "sync_push"
  /\ UNCHANGED <<cache, order, pending, calls>>
  /\ Step(t, [th EXCEPT
                 !.pc = "sync_remove",
                 !.results = PushAll(th.results, th.copy[th.i], th.i, 1,
                                     th.i :> outcomes)])

\* sync_all, line 238: self._pending_syncs.remove(key), a ValueError when
\* the entry is no longer in the list.
SyncRemoveStep(t) ==
  LET th == threads[t] IN
  /\ th.pc = "sync_remove"
  /\ UNCHANGED <<cache, order, calls>>
  /\ IF th.copy[th.i] \in {pending[j] : j \in 1..Len(pending)}
     THEN /\ pending' = SyncRemove(pending, th.copy[th.i])
          /\ Step(t, [th EXCEPT !.pc = "sync_next", !.i = th.i + 1])
     ELSE /\ UNCHANGED pending
          /\ Step(t, [th EXCEPT !.pc = "idle", !.err = "ValueError"])

\* The caller gives the cycle up between two entries of the loop, after one
\* entry at least and before the last.
SyncAbandon(t) ==
  LET th == threads[t] IN
  /\ th.pc = "sync_next"
  /\ UNCHANGED <<cache, order, pending, calls>>
  /\ 1 < th.i
  /\ th.i <= Len(th.copy)
  /\ Step(t, [th EXCEPT !.pc = "idle", !.err = "abandoned"])

\* The outcomes of the two pushes of one entry.
EntryOutcomes == [1..Len(PushSources) -> PushOutcomes]

ThreadNext ==
  \/ \E t \in ThreadIds, key \in Keys, value \in PutValues,
        source \in PutSources, ts \in LocalTimes :
       PutRead(t, key, value, source, ts)
  \/ \E t \in ThreadIds : PutStore(t)
  \/ \E t \in ThreadIds : PutAppend(t)
  \/ \E t \in ThreadIds, key \in Keys : DeleteTest(t, key)
  \/ \E t \in ThreadIds : DeleteDel(t)
  \/ \E t \in ThreadIds : DeleteAppend(t)
  \/ \E t \in ThreadIds : SyncCopy(t)
  \/ \E t \in ThreadIds : SyncNext(t)
  \/ \E t \in ThreadIds, outcomes \in EntryOutcomes : SyncPush(t, outcomes)
  \/ \E t \in ThreadIds : SyncRemoveStep(t)
  \/ \E t \in ThreadIds : SyncAbandon(t)

ThreadSpec == ThreadInit /\ [][ThreadNext]_vars

\* The same steps with one caller only: thread 1 makes every call, one
\* after the other, and may give a sync_all cycle up.
SoloIds == {1}

SoloNext ==
  \/ \E t \in SoloIds, key \in Keys, value \in PutValues,
        source \in PutSources, ts \in LocalTimes :
       PutRead(t, key, value, source, ts)
  \/ \E t \in SoloIds : PutStore(t)
  \/ \E t \in SoloIds : PutAppend(t)
  \/ \E t \in SoloIds, key \in Keys : DeleteTest(t, key)
  \/ \E t \in SoloIds : DeleteDel(t)
  \/ \E t \in SoloIds : DeleteAppend(t)
  \/ \E t \in SoloIds : SyncCopy(t)
  \/ \E t \in SoloIds : SyncNext(t)
  \/ \E t \in SoloIds, outcomes \in EntryOutcomes : SyncPush(t, outcomes)
  \/ \E t \in SoloIds : SyncRemoveStep(t)
  \/ \E t \in SoloIds : SyncAbandon(t)

SoloSpec == ThreadInit /\ [][SoloNext]_vars

\* ----------------------------------------------------------------- claims
Range(s) == {s[i] : i \in 1..Len(s)}

\* C1: put(k, value) returns and caches a record whose version is 1 when k
\* has no cached record and the cached record's version + 1 otherwise.
PutIncrementsVersion ==
  [][\A key \in Keys :
       (last'.op = "put" /\ last'.key = key) =>
         /\ last'.err = NoString
         /\ cache'[key] = last'.ret
         /\ last'.ret.version =
              (IF cache[key] = None THEN 1 ELSE cache[key].version + 1)]_vars

\* C1 witness: a put on a key that was cached has returned version 2.
PutOnCachedKey ==
  /\ last.op = "put"
  /\ cache[last.key] = last.ret
  /\ last.ret.version = 2

\* C2: the pending-sync queue never holds an entry twice.
PendingHasNoDuplicates ==
  \A i, j \in 1..Len(pending) : i # j => pending[i] # pending[j]

\* C3: when sync_all returns, no entry that was pending at its start
\* (normal key, tombstone, key no longer cached) is still in the queue; no
\* entry is added during the call, so the queue is empty.
SyncAllEmptiesPending == last.op = "sync_all" => pending = << >>

\* The number of pushes of (key, source) a sync_all result records.
PushCount(res, key, source) ==
  Cardinality({i \in 1..Len(res.synced) :
                 res.synced[i][1] = key /\ res.synced[i][2] = EnumValue(source)})
  + Cardinality({i \in 1..Len(res.failed) :
                 res.failed[i][1] = key /\ res.failed[i][2] = EnumValue(source)})

\* C4: within one sync_all call each (key, backend) pair is pushed at most
\* once.
SyncAllPushesPairOnce ==
  last.op = "sync_all" =>
    \A key \in Keys, j \in 1..Len(PushSources) :
      PushCount(last.ret, key, PushSources[j]) <= 1

InList(list, key, source) ==
  \E i \in 1..Len(list) : list[i][1] = key /\ list[i][2] = EnumValue(source)

\* C5: a failing push of K to B does not make sync_all raise, is recorded in
\* `failed`, every other push of the call is still attempted and recorded,
\* and each attempted (key, backend) pair is in exactly one of `synced` and
\* `failed`.
SyncAllIsolatesFailures ==
  [][last'.op = "sync_all" =>
     \A outcomes \in Outcomes :
       SyncAll(outcomes) =>
         /\ last'.err = NoString
         /\ \A i \in 1..Len(pending), j \in 1..Len(PushSources) :
              CacheGet(cache, pending[i]) # None =>
                IF outcomes[i][j] = "True"
                THEN InList(last'.ret.synced, pending[i], PushSources[j])
                ELSE InList(last'.ret.failed, pending[i], PushSources[j])
         /\ \A key \in Keys, j \in 1..Len(PushSources) :
              ~(/\ InList(last'.ret.synced, key, PushSources[j])
                /\ InList(last'.ret.failed, key, PushSources[j]))]_vars

LastWriteWinsTieToLocal ==
  [][\A i \in 1..Len(conflicts), merged_value \in MergedValues,
        ts \in LocalTimes :
       (/\ last'.op = "resolve_conflict"
        /\ ResolveConflict(i, LAST_WRITE_WINS, merged_value, ts)) =>
         LET l == conflicts[i].local_state
             r == conflicts[i].remote_state
             winner == IF r.timestamp > l.timestamp THEN r ELSE l
         IN last'.ret = winner /\ cache'[conflicts[i].key] = winner]_vars

\* C7 amended: LAST_WRITE_WINS returns and installs the local record when
\* its timestamp is strictly greater, and the remote record otherwise, the
\* two timestamps being equal included.
LastWriteWinsTieToRemote ==
  [][\A i \in 1..Len(conflicts), merged_value \in MergedValues,
        ts \in LocalTimes :
       (/\ last'.op = "resolve_conflict"
        /\ ResolveConflict(i, LAST_WRITE_WINS, merged_value, ts)) =>
         LET l == conflicts[i].local_state
             r == conflicts[i].remote_state
             winner == IF l.timestamp > r.timestamp THEN l ELSE r
         IN last'.ret = winner /\ cache'[conflicts[i].key] = winner]_vars

\* C7 witness: a conflict of equal timestamps was resolved with
\* LAST_WRITE_WINS and the remote record is installed.
LastWriteWinsOnTie ==
  /\ last.op = "resolve_conflict"
  /\ last.err = NoString
  /\ \E i \in 1..Len(conflicts) :
       /\ conflicts[i].key = last.key
       /\ conflicts[i].resolution = "last_write_wins"
       /\ conflicts[i].local_state.timestamp = conflicts[i].remote_state.timestamp
       /\ last.ret = conflicts[i].remote_state
       /\ cache[last.key] = conflicts[i].remote_state

\* C8: MERGE with a merged value puts it with source LOCAL and yields a
\* version strictly greater than the conflict's local and remote versions.
MergeVersionDominates ==
  [][\A i \in 1..Len(conflicts), merged_value \in MergedValues,
        ts \in LocalTimes :
       (/\ last'.op = "resolve_conflict" /\ last'.err = NoString
        /\ ResolveConflict(i, MERGE, merged_value, ts)) =>
         /\ last'.ret.value = merged_value
         /\ last'.ret.source = SyncSource_LOCAL
         /\ last'.ret.version > conflicts[i].local_state.version
         /\ last'.ret.version > conflicts[i].remote_state.version]_vars

\* C9: after a successful resolve_conflict the conflict is resolved, its
\* resolution is the policy's name, the cache maps the key to the returned
\* record and the key is in the pending queue.
ResolveSideEffects ==
  [][\A i \in 1..Len(conflicts), resolution \in ConflictResolution,
        merged_value \in MergedValues, ts \in LocalTimes :
       (/\ last'.op = "resolve_conflict" /\ last'.err = NoString
        /\ ResolveConflict(i, resolution, merged_value, ts)) =>
         /\ conflicts'[i].resolved
         /\ conflicts'[i].resolution =
              (CASE resolution = LAST_WRITE_WINS -> "last_write_wins"
                 [] resolution = SOURCE_PRIORITY -> "source_priority"
                 [] resolution = MERGE -> "merge"
                 [] resolution = MANUAL -> "manual")
         /\ cache'[conflicts[i].key] = last'.ret
         /\ conflicts[i].key \in Range(pending')]_vars

\* C9 witness: a resolve_conflict has succeeded on a logged conflict whose
\* key was not queued, and has queued it.
ResolvedInstalled ==
  /\ last.op = "resolve_conflict"
  /\ last.err = NoString
  /\ \E i \in 1..Len(conflicts) :
       /\ conflicts[i].key = last.key
       /\ conflicts[i].resolved
       /\ conflicts[i].resolution \in {"last_write_wins", "source_priority", "merge"}
  /\ cache[last.key] = last.ret
  /\ pending = <<last.key>>

\* C10: resolve_conflict with MANUAL raises, and leaves the conflict
\* unresolved and the cache, the pending queue and the conflict log as
\* they were.
ManualAlwaysFails ==
  [][\A i \in 1..Len(conflicts), merged_value \in MergedValues,
        ts \in LocalTimes :
       (/\ last'.op = "resolve_conflict"
        /\ ResolveConflict(i, MANUAL, merged_value, ts)) =>
         /\ last'.err = "ValueError: Cannot auto-resolve with resolution"
         /\ conflicts' = conflicts
         /\ cache' = cache
         /\ pending' = pending]_vars

\* C10 witness: a MANUAL resolution of an unresolved conflict has raised.
ManualRaised ==
  /\ last.op = "resolve_conflict"
  /\ last.err = "ValueError: Cannot auto-resolve with resolution"
  /\ \E i \in 1..Len(conflicts) :
       /\ conflicts[i].key = last.key
       /\ ~conflicts[i].resolved
       /\ conflicts[i].resolution = NoString

\* C11: resolve_conflict with MERGE raises exactly when no merged_value is
\* supplied (a supplied value, the empty mapping included, is accepted), and
\* a call that raises leaves the conflict log, the cache and the pending
\* queue as they were.
MergeRaisesOnlyWhenAbsent ==
  [][last'.op = "resolve_conflict" =>
     \A i \in 1..Len(conflicts), merged_value \in MergedValues,
        ts \in LocalTimes :
       ResolveConflict(i, MERGE, merged_value, ts) =>
         /\ (last'.err # NoString) <=> (merged_value = NoValue)
         /\ last'.err # NoString =>
              /\ conflicts' = conflicts
              /\ cache' = cache
              /\ pending' = pending]_vars

\* C12: resolve_conflict with SOURCE_PRIORITY returns and installs the
\* conflict's remote record, whatever the timestamps and versions.
SourcePriorityPicksRemote ==
  [][last'.op = "resolve_conflict" =>
     \A i \in 1..Len(conflicts), merged_value \in MergedValues,
        ts \in LocalTimes :
       ResolveConflict(i, SOURCE_PRIORITY, merged_value, ts) =>
         /\ last'.err = NoString
         /\ last'.ret = conflicts[i].remote_state
         /\ cache'[conflicts[i].key] = conflicts[i].remote_state]_vars

\* C12 witness: SOURCE_PRIORITY has installed a remote record that is older
\* than the local one by its timestamp.
SourcePriorityOverNewerLocal ==
  /\ last.op = "resolve_conflict"
  /\ last.err = NoString
  /\ \E i \in 1..Len(conflicts) :
       /\ conflicts[i].key = last.key
       /\ conflicts[i].resolution = "source_priority"
       /\ conflicts[i].local_state.timestamp > conflicts[i].remote_state.timestamp
       /\ last.ret = conflicts[i].remote_state
       /\ cache[last.key] = conflicts[i].remote_state

\* Whether a fetch result is a record.
IsRecord(r) == r # None /\ r # Raise

\* The conflicts that a step has appended to the log.
Appended == {conflicts'[j] : j \in (Len(conflicts) + 1)..Len(conflicts')}

\* C13: a sync_from_primary that returns replaces the local record by the
\* remote one, counts the key and logs no conflict for it, for every
\* targeted key whose remote record exists while the local record is absent
\* or has a different hash and a version not below the remote one.
PullReplacesUnlessBehind ==
  [][(last'.op = "sync_from_primary" /\ last'.err = NoString) =>
     \A keys \in KeysArgs : \A fetched \in FetchesOf[KeysToSync(keys, order)] :
       SyncFromPrimary(keys, fetched) =>
         LET todo == KeysToSync(keys, order)
             Taken(i) ==
               /\ IsRecord(fetched[i])
               /\ \/ cache[todo[i]] = None
                  \/ /\ cache[todo[i]].hash # fetched[i].hash
                     /\ cache[todo[i]].version >= fetched[i].version
         IN /\ \A i \in 1..Len(todo) :
                 Taken(i) =>
                   /\ cache'[todo[i]] = fetched[i]
                   /\ \A c \in Appended : c.key # todo[i]
            /\ last'.ret.count >= Cardinality({i \in 1..Len(todo) : Taken(i)})]_vars

\* C14: a sync_from_primary that returns leaves the local record as it is,
\* appends a conflict of that local and remote record and does not count
\* the key, for every targeted key whose hashes differ and whose local
\* version is below the remote one.  The calls are taken by the list of
\* keys they walk, todo; a step that is not the call with these fetch
\* results puts nothing at stake for them.
PullLogsConflictWhenBehind ==
  [][(last'.op = "sync_from_primary" /\ last'.err = NoString) =>
     \A todo \in {KeysToSync(keys, order) : keys \in KeysArgs} :
       (\E i \in 1..Len(todo) : cache[todo[i]] # None) =>
         \A fetched \in FetchesOf[todo] :
           LET keys == IF todo = << >> THEN NoKeys ELSE KeyList(todo)
               Behind(i) ==
                 /\ IsRecord(fetched[i])
                 /\ cache[todo[i]] # None
                 /\ cache[todo[i]].hash # fetched[i].hash
                 /\ cache[todo[i]].version < fetched[i].version
           IN \/ \A i \in 1..Len(todo) :
                   Behind(i) =>
                     /\ cache'[todo[i]] = cache[todo[i]]
                     /\ SyncConflict(todo[i], cache[todo[i]], fetched[i])
                          \in Appended
                     /\ last'.ret.count <=
                          Cardinality({n \in 1..Len(todo) :
                                         IsRecord(fetched[n]) /\ ~Behind(n)})
              \/ ~SyncFromPrimary(keys, fetched)]_vars

\* C14 witness: a sync_from_primary has logged a conflict for a key whose
\* local version is below the remote one, kept the local record and
\* counted nothing.
PullLoggedConflict ==
  /\ last.op = "sync_from_primary"
  /\ last.err = NoString
  /\ last.ret.count = 0
  /\ calls = 2
  /\ Len(conflicts) = 1
  /\ conflicts[1].local_state.version < conflicts[1].remote_state.version
  /\ cache[conflicts[1].key] = conflicts[1].local_state

\* C15: every cached record's hash is hash_state of the record's value.
CachedHashIsHashOfValue ==
  \A k \in Keys :
    cache[k] # None => cache[k].hash = hash_state(cache[k].value)

\* C16: every local mutation of a key (a put, a put after a delete, a
\* resolve_conflict) installs a record whose version is above every
\* version the key's cached record has had before.
MutationRaisesVersion ==
  [][\A k \in Keys :
       (/\ last'.op \in {"put", "resolve_conflict"}
        /\ last'.key = k
        /\ last'.err = NoString) =>
         cache'[k].version > held[k]]_vars

\* C17: every conflict in the log has differing local and remote hashes
\* and a local version that is not ahead of the remote version.
LoggedConflictsAreNotAhead ==
  \A i \in 1..Len(conflicts) :
    /\ conflicts[i].local_state.hash # conflicts[i].remote_state.hash
    /\ conflicts[i].local_state.version <= conflicts[i].remote_state.version

\* C18: no step removes or replaces an entry of the conflict log: every
\* entry stays at its position with its key and its two records.
ConflictLogAppendOnly ==
  [][\A i \in 1..Len(conflicts) :
       /\ i <= Len(conflicts')
       /\ conflicts'[i].key = conflicts[i].key
       /\ conflicts'[i].local_state = conflicts[i].local_state
       /\ conflicts'[i].remote_state = conflicts[i].remote_state]_vars

\* C18 witness: a later detect_conflicts has found a conflict for a key
\* that already had one in the log, and the log holds both.
LaterDetectAppended ==
  /\ last.op = "detect_conflicts"
  /\ last.err = NoString
  /\ Len(last.ret.items) = 1
  /\ Len(conflicts) = 2
  /\ conflicts[1].key = conflicts[2].key

\* C19: a step of any operation other than resolve_conflict leaves resolved
\* and resolution of every logged conflict as they were, and the conflicts
\* it appends are unresolved with no resolution.
OnlyResolveMarksResolved ==
  [][last'.op # "resolve_conflict" =>
     \A i \in 1..Len(conflicts') :
       IF i <= Len(conflicts)
       THEN /\ conflicts'[i].resolved = conflicts[i].resolved
            /\ conflicts'[i].resolution = conflicts[i].resolution
       ELSE /\ ~conflicts'[i].resolved
            /\ conflicts'[i].resolution = NoString]_vars

\* C19 witness: sync_from_primary has appended a conflict to a log that
\* held one already, and both are unresolved.
PullLeftConflictsUnresolved ==
  /\ last.op = "sync_from_primary"
  /\ last.err = NoString
  /\ Len(conflicts) = 2
  /\ \A i \in 1..Len(conflicts) :
       ~conflicts[i].resolved /\ conflicts[i].resolution = NoString

\* Two cache entries with the same hash and version, or both absent.
Equivalent(x, y) ==
  /\ (x = None) <=> (y = None)
  /\ x # None => (x.hash = y.hash /\ x.version = y.version)

LoadMissingYieldsEmptyCache ==
  [][last'.op = "load_local" =>
     (LoadLocal(NoFile) =>
        /\ last'.err = NoString
        /\ last'.ret = Count(0)
        /\ \A k \in Keys : cache'[k] = None)]_vars

\* C21 amended: load_local of a path with no file does not raise, returns 0
\* and leaves the cache, the pending queue and the conflict log as they
\* were.
LoadMissingChangesNothing ==
  [][last'.op = "load_local" =>
     (LoadLocal(NoFile) =>
        /\ last'.err = NoString
        /\ last'.ret = Count(0)
        /\ cache' = cache
        /\ pending' = pending
        /\ conflicts' = conflicts)]_vars

\* C21 witness: load_local has returned 0 on a manager whose cache holds a
\* record.
LoadMissingOnFilledCache ==
  /\ last.op = "load_local"
  /\ last.ret = Count(0)
  /\ \E k \in Keys : cache[k] # None

\* C22: delete of a cached key removes the record, appends the key's
\* tombstone to the pending queue and returns true; delete of a key that is
\* not cached returns false and leaves the cache, the pending queue and the
\* conflict log as they were.
DeleteRemovesAndQueuesTombstone ==
  [][\A key \in Keys :
       (last'.op = "delete" /\ last'.key = key) =>
         /\ last'.err = NoString
         /\ IF cache[key] # None
            THEN /\ cache'[key] = None
                 /\ \A k \in Keys \ {key} : cache'[k] = cache[k]
                 /\ pending' = Append(pending, <<"DELETE:">> \o key)
                 /\ last'.ret = Bool(TRUE)
            ELSE /\ cache' = cache
                 /\ pending' = pending
                 /\ conflicts' = conflicts
                 /\ last'.ret = Bool(FALSE)]_vars

\* C22 witness: a delete has removed a cached record and queued its
\* tombstone.
DeletedCachedKey ==
  /\ last.op = "delete"
  /\ last.ret = Bool(TRUE)
  /\ cache[last.key] = None
  /\ Len(pending) > 0
  /\ pending[Len(pending)] = <<"DELETE:">> \o last.key

\* C24: a fetch error in sync_from_primary, detect_conflicts or get is
\* caught and recorded: the operation does not raise.
FetchErrorsAreCaught ==
  [][last'.op \in {"sync_from_primary", "detect_conflicts", "get"} =>
     last'.err = NoString]_vars

LocalAhead(local_state, remote_state) ==
  /\ local_state # None
  /\ IsRecord(remote_state)
  /\ local_state.version = 2
  /\ local_state.source = SyncSource_LOCAL
  /\ remote_state.version = 1
  /\ local_state.hash # remote_state.hash

\* LAST_WRITE_WINS on a logged conflict of the case of C28, with the local
\* timestamp the later one, returns and installs the local record.
LastWriteWinsKeepsLocalAhead ==
  last'.op = "resolve_conflict" =>
    \A i \in 1..Len(conflicts), merged_value \in MergedValues,
       ts \in LocalTimes :
      (/\ LocalAhead(conflicts[i].local_state, conflicts[i].remote_state)
       /\ conflicts[i].local_state.timestamp >
            conflicts[i].remote_state.timestamp
       /\ ResolveConflict(i, LAST_WRITE_WINS, merged_value, ts)) =>
        /\ last'.ret = conflicts[i].local_state
        /\ cache'[conflicts[i].key] = conflicts[i].local_state

\* C28 as stated: with a local record of version 2 after two puts, a remote
\* record of version 1 with another hash is flagged as a conflict by
\* detect_conflicts, and LAST_WRITE_WINS with the later local timestamp
\* keeps the local record.
RemoteBehindIsFlagged ==
  [][/\ (last'.op = "detect_conflicts" /\ last'.err = NoString) =>
        \A fetched \in FetchesOf[order] :
          DetectConflicts(fetched) =>
            \A i \in 1..Len(order) :
              LocalAhead(cache[order[i]], fetched[i]) =>
                \E c \in Range(last'.ret.items) :
                  c.key = order[i] /\ c.remote_state = fetched[i]
     /\ LastWriteWinsKeepsLocalAhead]_vars

\* C28 amended: detect_conflicts does not flag that remote record, the
\* local version being ahead; a conflict of the two records that is in the
\* log (sync_from_primary logs one) and is resolved with LAST_WRITE_WINS,
\* the local timestamp being the later one, keeps the local record.
RemoteBehindIsNotFlagged ==
  [][/\ (last'.op = "detect_conflicts" /\ last'.err = NoString) =>
        \A fetched \in FetchesOf[order] :
          DetectConflicts(fetched) =>
            \A i \in 1..Len(order) :
              LocalAhead(cache[order[i]], fetched[i]) =>
                \A c \in Range(last'.ret.items) : c.key # order[i]
     /\ LastWriteWinsKeepsLocalAhead]_vars

\* C28 witness: a logged conflict of a local record of version 2 and a
\* remote record of version 1 has been resolved with LAST_WRITE_WINS, and
\* the local record is the one returned and cached.
LocalAheadKept ==
  /\ last.op = "resolve_conflict"
  /\ last.err = NoString
  /\ \E i \in 1..Len(conflicts) :
       /\ conflicts[i].key = last.key
       /\ conflicts[i].resolution = "last_write_wins"
       /\ LocalAhead(conflicts[i].local_state, conflicts[i].remote_state)
       /\ conflicts[i].local_state.timestamp >
            conflicts[i].remote_state.timestamp
       /\ last.ret = conflicts[i].local_state
       /\ cache[last.key] = conflicts[i].local_state

\* C23: for all keys k1, k2, the entry delete(k1) queues is never equal to
\* the entry put(k2) queues.
TombstoneIsNoNormalEntry ==
  output.op = "queue" => output.first # output.second

\* The volatile field names as C27 lists them.
VolatileNames == {"updated_at", "last_modified", "etag", "_metadata"}

RECURSIVE Stripped(_)
RECURSIVE StrippedPairs(_)
RECURSIVE StrippedItems(_)
\* A value as a mapping, the volatile fields removed at every depth: a
\* mapping is the set of its fields, a sequence keeps its order.
StrippedPairs(s) ==
  IF s = << >> THEN {}
  ELSE (IF Head(s)[1] \in VolatileNames THEN {}
        ELSE {<<Head(s)[1], Stripped(Head(s)[2])>>})
       \cup StrippedPairs(Tail(s))

StrippedItems(s) ==
  IF s = << >> THEN << >> ELSE <<Stripped(Head(s))>> \o StrippedItems(Tail(s))

Stripped(obj) ==
  IF obj[1] = "m" THEN <<"m", StrippedPairs(obj[2])>>
  ELSE IF obj[1] \in {"l", "t"} THEN <<obj[1], StrippedItems(obj[2])>>
  ELSE obj

\* C27: two values that are equal as mappings after removal of the volatile
\* fields at every nesting depth, inside mappings nested in sequences
\* included, get the same digest from hash_state.
EqualWhenStrippedHashEqual ==
  (output.op = "hash_state" /\ Stripped(input.x) = Stripped(input.y)) =>
    output.first = output.second

Occurrences(s, x) == Cardinality({j \in 1..Len(s) : s[j] = x})

\* C25: two put calls on the same key by two threads, begun one after the
\* other with no other call under way, leave the key at the version it had
\* plus 2 with both entries queued, however their steps interleave; and no
\* sync_all call fails on the pending queue.
ConcurrentCallsAreSerialized ==
  /\ \A t \in ThreadIds, u \in ThreadIds :
       (/\ threads[t].pc = "idle" /\ threads[u].pc = "idle"
        /\ threads[t].op = "put" /\ threads[u].op = "put"
        /\ threads[t].key = threads[u].key
        /\ threads[t].quiet
        /\ threads[u].seq = threads[t].seq + 1) =>
         /\ cache[threads[t].key] # None
         /\ cache[threads[t].key].version = threads[t].before + 2
         /\ Occurrences(pending, threads[t].key) >= 2
  /\ \A t \in ThreadIds :
       threads[t].op = "sync_all" => threads[t].err # "ValueError"

\* C26: when a sync_all cycle of a single caller is
\* abandoned between two entries, no key it attempted to push is in the
\* pending queue any more, and every entry it had not come to still is.
AbandonedCycleKeepsOnlyUnattempted ==
  \A t \in ThreadIds :
    (/\ threads[t].op = "sync_all"
     /\ threads[t].err = "abandoned"
     /\ threads[t].alone) =>
      LET th == threads[t]
          attempted == {e[1] : e \in Range(th.results.synced)
                                       \cup Range(th.results.failed)}
      IN /\ \A k \in attempted : k \notin Range(pending)
         /\ \A j \in th.i..Len(th.copy) : th.copy[j] \in Range(pending)

\* C31: the count a sync_from_primary returns is the number of targeted
\* keys whose cached record was replaced by a remote record differing from
\* it (the key not cached, or cached with another hash); a key whose remote
\* hash equals the local hash is not counted.
PullCountsOnlyDiffering ==
  [][(last'.op = "sync_from_primary" /\ last'.err = NoString) =>
     \A todo \in {KeysToSync(keys, order) : keys \in KeysArgs} :
       \A fetched \in FetchesOf[todo] :
         LET keys == IF todo = << >> THEN NoKeys ELSE KeyList(todo)
             Replaced(i) ==
               /\ IsRecord(fetched[i])
               /\ \/ cache[todo[i]] = None
                  \/ cache[todo[i]].hash # fetched[i].hash
               /\ cache'[todo[i]] = fetched[i]
         IN \/ last'.ret.count =
                 Cardinality({i \in 1..Len(todo) : Replaced(i)})
            \/ ~SyncFromPrimary(keys, fetched)]_vars

\* C32: sync_all leaves the cache and the conflict log as they are, only
\* takes entries out of the pending queue, and returns an empty `conflicts`
\* list.
SyncAllFrame ==
  [][last'.op = "sync_all" =>
     /\ cache' = cache
     /\ order' = order
     /\ conflicts' = conflicts
     /\ last'.err = NoString
     /\ last'.ret.conflicts = << >>
     /\ \A e \in Range(pending) \cup Range(pending') :
          Occurrences(pending', e) <= Occurrences(pending, e)]_vars

\* C32 witness: a sync_all has pushed a cached key while the conflict log
\* held an unresolved conflict, and the record is still cached.
SyncAllPushedBesideConflict ==
  /\ last.op = "sync_all"
  /\ last.ret.synced # << >>
  /\ last.ret.conflicts = << >>
  /\ \E k \in Keys : cache[k] # None
  /\ \E i \in 1..Len(conflicts) : ~conflicts[i].resolved

\* C33: every pending entry that is a key names a cached key, and every
\* tombstone names a key that is not cached.
PendingEntriesAreCurrent ==
  \A j \in 1..Len(pending) :
    IF Head(pending[j]) = "DELETE:"
    THEN cache[Tail(pending[j])] = None
    ELSE cache[pending[j]] # None

\* C34: a queued key whose record stays cached keeps its pending entry
\* through every call other than sync_all.
PendingEntryKeptUntilSync ==
  [][last'.op # "sync_all" =>
     \A k \in Keys :
       (k \in Range(pending) /\ cache[k] # None /\ cache'[k] # None) =>
         k \in Range(pending')]_vars

CachedKeys(c) == {k \in Keys : c[k] # None}
SnapshotKeys(file) == {file.states[j][1] : j \in 1..Len(file.states)}

\* C35 as stated: after load_local of an existing snapshot file the cached
\* keys are exactly the keys of the snapshot and the count returned is the
\* number of records in the snapshot.
LoadYieldsSnapshotKeys ==
  [][last'.op = "load_local" =>
     \A file \in LoadableFiles \ {NoFile} :
       LoadLocal(file) =>
         /\ CachedKeys(cache') = SnapshotKeys(file)
         /\ last'.ret.count = Len(file.states)]_vars

\* C35 amended: after load_local of an existing snapshot file the cached
\* keys are the keys cached before together with the keys of the snapshot,
\* each key of the snapshot holds the snapshot's record, every other key
\* holds what it held, and the count returned is the number of records
\* cached after the call.
LoadMergesSnapshotKeys ==
  [][last'.op = "load_local" =>
     \A file \in LoadableFiles \ {NoFile} :
       LoadLocal(file) =>
         /\ CachedKeys(cache') = CachedKeys(cache) \cup SnapshotKeys(file)
         /\ \A j \in 1..Len(file.states) :
              cache'[file.states[j][1]] = from_dict(file.states[j][2])
         /\ \A k \in Keys \ SnapshotKeys(file) : cache'[k] = cache[k]
         /\ last'.ret.count = Cardinality(CachedKeys(cache'))]_vars

\* C35 witness: load_local has read a snapshot of one record into a cache
\* that held another key, and returned 2.
LoadedBesideOtherKey ==
  /\ last.op = "load_local"
  /\ last.ret.count = 2
  /\ cache[KeyA] = OldRecord
  /\ cache[KeyB] # None
  /\ cache[KeyB].source = SyncSource_LOCAL

\* C36: a sync_from_primary called with a list of keys, the empty list
\* included, changes the cached record of no key outside the list and logs
\* a conflict for no key outside it; with the empty list it fetches
\* nothing and returns 0.
PullTouchesOnlyListedKeys ==
  [][(last'.op = "sync_from_primary" /\ last'.err = NoString) =>
     \A keys \in {a \in KeysArgs : a.given} :
       \A fetched \in FetchesOf[KeysToSync(keys, order)] :
         \/ /\ \A k \in Keys \ Range(keys.list) : cache'[k] = cache[k]
            /\ \A c \in Appended : c.key \in Range(keys.list)
            /\ keys.list = << >> => (fetched = << >> /\ last'.ret.count = 0)
         \/ ~SyncFromPrimary(keys, fetched)]_vars

\* C37: a get of a key that was deleted and not put since (its tombstone is
\* queued and it is not cached) returns absent and leaves the key out of
\* the cache, whatever the primary holds.
DeletedKeyStaysAbsent ==
  [][(/\ last'.op = "get"
      /\ last'.err = NoString
      /\ Tombstone(last'.key) \in Range(pending)
      /\ cache[last'.key] = None) =>
       /\ last'.ret = None
       /\ cache'[last'.key] = None]_vars

\* A resolved conflict stays resolved through every call.
ResolvedStaysResolved ==
  \A i \in 1..Len(conflicts) :
    conflicts[i].resolved =>
      (i <= Len(conflicts') /\ conflicts'[i].resolved)

\* C38 as stated: a resolved conflict stays resolved, and a later
\* resolve_conflict on it changes neither its resolution nor the cache nor
\* the pending queue.
ResolvedConflictIsFinal ==
  [][/\ ResolvedStaysResolved
     /\ last'.op = "resolve_conflict" =>
          \A i \in 1..Len(conflicts), resolution \in ConflictResolution,
             merged_value \in MergedValues, ts \in LocalTimes :
            (conflicts[i].resolved
               /\ ResolveConflict(i, resolution, merged_value, ts)) =>
              /\ conflicts'[i].resolution = conflicts[i].resolution
              /\ cache' = cache
              /\ pending' = pending]_vars

\* C38 amended: a resolved conflict stays resolved, and a later
\* resolve_conflict on it that does not raise is carried out like the
\* first: the conflict records the policy of that call, the cache holds the
\* winner that call returns and the key is queued once more.
ResolvedConflictIsResolvedAgain ==
  [][/\ ResolvedStaysResolved
     /\ (last'.op = "resolve_conflict" /\ last'.err = NoString) =>
          \A i \in 1..Len(conflicts), resolution \in ConflictResolution,
             merged_value \in MergedValues, ts \in LocalTimes :
            (conflicts[i].resolved
               /\ ResolveConflict(i, resolution, merged_value, ts)) =>
              /\ conflicts'[i].resolution = EnumValue(resolution)
              /\ cache'[conflicts[i].key] = last'.ret
              /\ Occurrences(pending', conflicts[i].key) >
                   Occurrences(pending, conflicts[i].key)]_vars

\* C38 witness: the one conflict of the log has been resolved twice, the
\* second time with LAST_WRITE_WINS: it records that policy, the cache
\* holds that call's winner, and the key has been queued by each of the two
\* calls behind the entry that was pending before them.
ResolvedTwice ==
  /\ last.op = "resolve_conflict"
  /\ Len(conflicts) = 1
  /\ conflicts[1].resolved
  /\ conflicts[1].resolution = "last_write_wins"
  /\ last.ret = conflicts[1].local_state
  /\ cache[KeyA] = conflicts[1].local_state
  /\ pending = <<KeyB, KeyA, KeyA>>
  /\ calls = 3
====
